---- MODULE Spec2Model ----
(***************************************************************************)
(* Model of assets/product-hotspot.js: the ProductHotspotComponent custom  *)
(* element (hover-intent timer, show/close of the dialog, light dismiss,   *)
(* breakpoint adaptation).                                                 *)
(*                                                                         *)
(* The browser is single threaded: every listener, timer callback and      *)
(* promise continuation runs to completion, and the microtasks a callback  *)
(* queues run before the next task.  One action of the model is one task   *)
(* together with the microtasks it queues.  The suspension points are the  *)
(* three the code has: setTimeout(.., 120) of the hover intent,            *)
(* setTimeout(resolve, 100) of the placement settle, and the finished      *)
(* promises of the dialog's animations.                                    *)
(*                                                                         *)
(* Timers are kept in creation order.  setTimeout promises only a minimum  *)
(* delay plus the HTML ordering rule: a timer waits for every timer of the *)
(* same global that was started before it with a timeout less than or      *)
(* equal to its own (CanFire).                                             *)
(*                                                                         *)
(* Timer handles are numbers in the code; the model keeps, for every       *)
(* scheduled timeout, whether this.timer currently holds its handle        *)
(* (held), and for this.timer whether it is non-null (timer).              *)
(*                                                                         *)
(* Spec is the component's life: there the descriptor a measurement        *)
(* publishes is any of the six, the page's layout being free to change     *)
(* between two hovers.  PlacementSpec is #calculateDialogPlacement on its   *)
(* own: the rectangles are drawn from a grid and the descriptor and the    *)
(* vertical offset are computed from them as the code computes them.       *)
(***************************************************************************)
EXTENDS Integers, Sequences, FiniteSets

VARIABLES
    hasDialog,            \* this.querySelector('dialog') finds a dialog
    hasParent,            \* this.parentElement is an element
    connected,            \* the element is in the document
    mobile,               \* isMobileBreakpoint()
    mqListener,           \* mediaQueryLarge 'change' -> #handleBreakpointChange
    pointerenterHandler,  \* this.#pointerenterHandler is not null
    trigEnter,            \* trigger 'pointerenter' -> pointerenterHandler
    trigLeave,            \* trigger 'pointerleave' -> #handlePointerLeave
    dlgLeave,             \* dialog 'pointerleave' -> #handlePointerLeave
    bodyClick,            \* document.body 'click' -> lightDismissMouse
    bodyKeydown,          \* document.body 'keydown' -> lightDismissKeyboard
    bodyKeyup,            \* document.body 'keyup' -> lightDismissKeyboard
    timer,                \* this.timer is not null
    timers,               \* scheduled timeouts, oldest first
    closes,               \* closeDialog calls awaiting Promise.allSettled
    open,                 \* dialog.open
    showing,              \* dialog.dataset.showing
    closing,              \* dialog.dataset.closing
    placement,            \* dialog.dataset.placement, "none" when absent
    ptr,                  \* where the mouse pointer is
    layout                \* the rectangles getBoundingClientRect() reports
                          \* and the --dialog-vertical-offset of the dialog

vars == << hasDialog, hasParent, connected, mobile, mqListener,
           pointerenterHandler, trigEnter, trigLeave, dlgLeave, bodyClick,
           bodyKeydown, bodyKeyup, timer, timers, closes, open, showing,
           closing, placement, ptr, layout >>

(* Bounds of the model. *)
MaxTimers == 2
MaxCloses == 2
MaxAnims == 2
MaxGrid == 8

(* Program constants. *)
HOVER_DELAY == 120
SETTLE_DELAY == 100
BUTTON_GAP == 10
CONTAINER_GAP == 10
TOTAL_GAP == BUTTON_GAP + CONTAINER_GAP

Horizontal == {"right", "left", "center"}
Vertical == {"bottom", "top"}

(* `${x},${y}` *)
Descriptor(x, y) == x \o "," \o y

Placements == { Descriptor(x, y) : x \in Horizontal, y \in Vertical }

Places == {"out", "trigger", "dialog"}

(***************************************************************************)
(* #calculateDialogPlacement, the geometry.  g holds the rectangles the    *)
(* three getBoundingClientRect() calls return, in viewport pixels:         *)
(* g.containerRect (left, top, width, height), g.triggerRect (left, right, *)
(* top, bottom) and g.dialogRect (width, height).                          *)
(***************************************************************************)
buttonLeft(g) == g.triggerRect.left - g.containerRect.left
buttonRight(g) == g.triggerRect.right - g.containerRect.left
buttonTop(g) == g.triggerRect.top - g.containerRect.top
buttonBottom(g) == g.triggerRect.bottom - g.containerRect.top

spaceRight(g) == g.containerRect.width - buttonRight(g) - CONTAINER_GAP

(* the edge gap forgotten on the left side *)
spaceLeft_noGap(g) == buttonLeft(g)

spaceLeft(g) == buttonLeft(g) - CONTAINER_GAP

(* let x: the horizontal placement *)
placementX(g) ==
    IF spaceRight(g) >= g.dialogRect.width + BUTTON_GAP THEN "right"
    ELSE IF spaceLeft(g) >= g.dialogRect.width + BUTTON_GAP THEN "left"
    ELSE "center"

(* the overflow measured from the trigger's bottom edge *)
overflowsBottom_fromBottom(g) ==
    buttonBottom(g) + g.dialogRect.height > g.containerRect.height - CONTAINER_GAP

(* non-center: the dialog aligned with the trigger's top edge overflows    *)
(* the container's bottom edge gap                                         *)
overflowsBottom(g) ==
    buttonTop(g) + g.dialogRect.height > g.containerRect.height - CONTAINER_GAP

(* non-center: dialogStartY and dialogEndY when the vertical placement is  *)
(* decided                                                                 *)
dialogStartY(g) ==
    IF overflowsBottom(g) THEN buttonBottom(g) - g.dialogRect.height
    ELSE buttonTop(g)

dialogEndY(g) ==
    IF overflowsBottom(g) THEN buttonBottom(g)
    ELSE buttonTop(g) + g.dialogRect.height

(* let y: the vertical placement; buttonTop < containerRect.height / 2 is  *)
(* written without the division                                            *)
placementY(g) ==
    IF placementX(g) # "center"
    THEN IF overflowsBottom(g) THEN "top" ELSE "bottom"
    ELSE IF g.containerRect.height - buttonBottom(g)
                >= g.dialogRect.height + TOTAL_GAP THEN "bottom"
    ELSE IF buttonTop(g) >= g.dialogRect.height + TOTAL_GAP THEN "top"
    ELSE IF 2 * buttonTop(g) < g.containerRect.height THEN "bottom"
    ELSE "top"

(* the correction of an overflow past the bottom edge gap dropped *)
verticalOffset_topOnly(g) ==
    IF placementX(g) = "center" THEN 0
    ELSE IF dialogStartY(g) < CONTAINER_GAP
         THEN CONTAINER_GAP - dialogStartY(g)
    ELSE 0

(* let verticalOffset; 0 removes --dialog-vertical-offset *)
verticalOffset(g) ==
    IF placementX(g) = "center" THEN 0
    ELSE IF overflowsBottom(g)
    THEN IF dialogStartY(g) < CONTAINER_GAP
         THEN CONTAINER_GAP - dialogStartY(g)
         ELSE IF dialogEndY(g) > g.containerRect.height - CONTAINER_GAP
         THEN 0 - (dialogEndY(g) - (g.containerRect.height - CONTAINER_GAP))
         ELSE 0
    ELSE IF dialogStartY(g) < CONTAINER_GAP
         THEN CONTAINER_GAP - dialogStartY(g)
         ELSE 0

(* dialog.dataset.placement = `${x},${y}` *)
dialogPlacement(g) == Descriptor(placementX(g), placementY(g))

(* the dialog's style after the offset is applied or removed *)
applyOffset(g) == [g EXCEPT !.verticalOffset = verticalOffset(g)]

(***************************************************************************)
(* The component and its DOM as one record, so that a handler is an        *)
(* operator from state to state and handlers compose as the code calls     *)
(* them.                                                                   *)
(***************************************************************************)
State ==
    [ hasDialog |-> hasDialog, hasParent |-> hasParent, connected |-> connected,
      mobile |-> mobile, mqListener |-> mqListener,
      pointerenterHandler |-> pointerenterHandler, trigEnter |-> trigEnter,
      trigLeave |-> trigLeave, dlgLeave |-> dlgLeave, bodyClick |-> bodyClick,
      bodyKeydown |-> bodyKeydown, bodyKeyup |-> bodyKeyup, timer |-> timer,
      timers |-> timers, closes |-> closes, open |-> open, showing |-> showing,
      closing |-> closing, placement |-> placement, ptr |-> ptr,
      layout |-> layout ]

Becomes(s) ==
    /\ hasDialog' = s.hasDialog
    /\ hasParent' = s.hasParent
    /\ connected' = s.connected
    /\ mobile' = s.mobile
    /\ mqListener' = s.mqListener
    /\ pointerenterHandler' = s.pointerenterHandler
    /\ trigEnter' = s.trigEnter
    /\ trigLeave' = s.trigLeave
    /\ dlgLeave' = s.dlgLeave
    /\ bodyClick' = s.bodyClick
    /\ bodyKeydown' = s.bodyKeydown
    /\ bodyKeyup' = s.bodyKeyup
    /\ timer' = s.timer
    /\ timers' = s.timers
    /\ closes' = s.closes
    /\ open' = s.open
    /\ showing' = s.showing
    /\ closing' = s.closing
    /\ placement' = s.placement
    /\ ptr' = s.ptr
    /\ layout' = s.layout

(***************************************************************************)
(* Timers.                                                                 *)
(***************************************************************************)
Delay(kind) == IF kind = "hover" THEN HOVER_DELAY ELSE SETTLE_DELAY

(* setTimeout(() => this.showDialog(), 120) whose handle goes to this.timer *)
HoverTimer == [kind |-> "hover", held |-> TRUE, pub |-> "none", midClose |-> FALSE]

(* setTimeout(resolve, 100) of a showDialog that published descriptor p;    *)
(* midClose: a closeDialog was awaiting its animations when it started.     *)
SettleTimer(p, mid) == [kind |-> "settle", held |-> FALSE, pub |-> p, midClose |-> mid]

RECURSIVE Without(_, _)
Without(seq, i) ==
    IF seq = << >> THEN << >>
    ELSE IF i = 1 THEN Tail(seq)
    ELSE << Head(seq) >> \o Without(Tail(seq), i - 1)

RECURSIVE Unheld(_)
(* the scheduled timeouts once this.timer is overwritten *)
Unheld(seq) ==
    IF seq = << >> THEN << >>
    ELSE << [Head(seq) EXCEPT !.held = FALSE] >> \o Unheld(Tail(seq))

RECURSIVE Cleared(_)
(* clearTimeout(this.timer): the timeout whose handle this.timer holds is  *)
(* dropped; a handle of a timeout that has fired clears nothing            *)
Cleared(seq) ==
    IF seq = << >> THEN << >>
    ELSE IF Head(seq).held THEN Cleared(Tail(seq))
    ELSE << Head(seq) >> \o Cleared(Tail(seq))

(* HTML timer ordering: entry i waits for every earlier entry whose timeout *)
(* is less than or equal to its own                                         *)
CanFire(seq, i) ==
    \A j \in 1..(i - 1) : Delay(seq[j].kind) > Delay(seq[i].kind)

HoverPending(seq) == { i \in 1..Len(seq) : seq[i].kind = "hover" }
ShowsInFlight(seq) == { i \in 1..Len(seq) : seq[i].kind = "settle" }

(***************************************************************************)
(* The dialog element.                                                     *)
(***************************************************************************)
(* dialog.show(): sets the open attribute; nothing when already open *)
dialogShow(s) == [s EXCEPT !.open = TRUE]

(* dialog.close(): removes the open attribute; a hidden dialog is no       *)
(* longer under the pointer                                                *)
dialogClose(s) ==
    [s EXCEPT !.open = FALSE,
              !.ptr = IF s.ptr = "dialog" THEN "out" ELSE s.ptr]

(***************************************************************************)
(* closeDialog.                                                            *)
(***************************************************************************)
(* after the await: the flags are cleared only if the dialog is not open *)
closeDialogResume(s) ==
    IF ~s.open
    THEN [s EXCEPT !.showing = FALSE, !.closing = FALSE, !.placement = "none"]
    ELSE s

(* Promise.all in the place of Promise.allSettled: a rejection rejects     *)
(* the awaited promise and closeDialog never continues                     *)
allSettled_all(left, outcome) == left = 0 /\ outcome = "fulfilled"

(* Promise.allSettled(animations.map((a) => a.finished)): a finished       *)
(* promise that fulfils and one that rejects both count as settled; left   *)
(* is the number of promises still pending after this one                  *)
allSettled(left, outcome) == left = 0

(* closeDialog that omits dialog.close() *)
closeDialog_noClose(s, n) ==
    IF ~s.hasDialog THEN s
    ELSE LET c == [s EXCEPT !.closing = TRUE,
                            !.bodyClick = FALSE,
                            !.bodyKeydown = FALSE,
                            !.bodyKeyup = FALSE,
                            !.dlgLeave = FALSE,
                            !.trigLeave = FALSE]
         IN  IF n = 0 THEN closeDialogResume(c)
             ELSE IF Len(c.closes) < MaxCloses
                  THEN [c EXCEPT !.closes = Append(@, n)]
                  ELSE c

(* closeDialog that omits removeEventListener('keyup', ...) *)
closeDialog_keepsKeyup(s, n) ==
    IF ~s.hasDialog THEN s
    ELSE LET c == [dialogClose(s) EXCEPT !.closing = TRUE,
                                         !.bodyClick = FALSE,
                                         !.bodyKeydown = FALSE,
                                         !.dlgLeave = FALSE,
                                         !.trigLeave = FALSE]
         IN  IF n = 0 THEN closeDialogResume(c)
             ELSE IF Len(c.closes) < MaxCloses
                  THEN [c EXCEPT !.closes = Append(@, n)]
                  ELSE c

(* closeDialog up to its await.  n is the number of animations that        *)
(* getAnimations({subtree: true}) returns.  With none the continuation is  *)
(* a microtask of the same task.  Past MaxCloses awaiting calls, a further *)
(* call awaits the animations the latest awaiting call already awaits.     *)
closeDialog(s, n) ==
    IF ~s.hasDialog THEN s
    ELSE LET c == [dialogClose(s) EXCEPT !.closing = TRUE,
                                         !.bodyClick = FALSE,
                                         !.bodyKeydown = FALSE,
                                         !.bodyKeyup = FALSE,
                                         !.dlgLeave = FALSE,
                                         !.trigLeave = FALSE]
         IN  IF n = 0 THEN closeDialogResume(c)
             ELSE IF Len(c.closes) < MaxCloses
                  THEN [c EXCEPT !.closes = Append(@, n)]
                  ELSE c

(***************************************************************************)
(* showDialog.                                                             *)
(***************************************************************************)
(* after the await: mark showing, show, register the dismissal listeners *)
showDialogResume(s) ==
    [dialogShow([s EXCEPT !.showing = TRUE])
        EXCEPT !.bodyClick = TRUE, !.bodyKeydown = TRUE, !.bodyKeyup = TRUE,
               !.dlgLeave = TRUE]

(* #calculateDialogPlacement with a container: the measurement yields the  *)
(* descriptor p, which is published, and the settle timeout is scheduled   *)
calculateDialogPlacement(s, p) ==
    [s EXCEPT !.placement = p,
              !.timers = Append(@, SettleTimer(p, Len(s.closes) > 0))]

(* showDialog up to its await; without a parent element                    *)
(* #calculateDialogPlacement returns undefined and the continuation is a   *)
(* microtask of the same task                                              *)
showDialog(s, p) ==
    IF ~s.hasDialog THEN s
    ELSE IF ~s.hasParent THEN showDialogResume(s)
    ELSE calculateDialogPlacement(s, p)

(***************************************************************************)
(* Hover listeners.                                                        *)
(***************************************************************************)
clearTimer(s) ==
    IF s.timer
    THEN [s EXCEPT !.timers = Cleared(@), !.timer = FALSE]
    ELSE s

setupDesktopListeners(s) ==
    IF ~s.hasDialog THEN s
    ELSE [s EXCEPT !.pointerenterHandler = TRUE, !.trigEnter = TRUE]

removeDesktopListeners(s) ==
    clearTimer(IF s.pointerenterHandler
               THEN [s EXCEPT !.trigEnter = FALSE, !.trigLeave = FALSE,
                              !.pointerenterHandler = FALSE]
               ELSE s)

handleBreakpointChange(s) ==
    LET r == removeDesktopListeners(s)
    IN  IF ~r.mobile THEN setupDesktopListeners(r) ELSE r

(* the pointerenter closure without its dialog.open guard *)
pointerenterHandlerFn_noGuard(s) ==
    [s EXCEPT !.timers = Append(Unheld(@), HoverTimer),
              !.timer = TRUE,
              !.trigLeave = TRUE]

(* the closure registered for 'pointerenter' on the trigger *)
pointerenterHandlerFn(s) ==
    IF s.open THEN s
    ELSE [s EXCEPT !.timers = Append(Unheld(@), HoverTimer),
                   !.timer = TRUE,
                   !.trigLeave = TRUE]

(* #handlePointerLeave for a pointerleave of target going to related *)
handlePointerLeave(s, target, related, n) ==
    LET c == clearTimer(s)
        isLeavingTrigger == target = "trigger"
        isLeavingDialog == target = "dialog"
        isGoingToDialog == related = "dialog"
        isGoingToTrigger == related = "trigger"
    IN  IF ~c.hasDialog \/ ~c.open THEN c
        ELSE IF \/ (isLeavingTrigger /\ ~isGoingToDialog)
                \/ (isLeavingDialog /\ ~isGoingToTrigger)
             THEN closeDialog(c, n)
             ELSE c

(***************************************************************************)
(* Light dismiss.                                                          *)
(***************************************************************************)
lightDismissMouse(s, outside, n) ==
    IF s.hasDialog /\ outside THEN closeDialog(s, n) ELSE s

lightDismissKeyboard(s, type, key, focusWithin, n) ==
    IF ~s.hasDialog THEN s
    ELSE IF \/ (type = "keydown" /\ key = "Escape")
            \/ (type = "keyup" /\ ~focusWithin)
         THEN closeDialog(s, n)
         ELSE s

(***************************************************************************)
(* Lifecycle callbacks.                                                    *)
(***************************************************************************)
connectedCallback(s) ==
    [(IF ~s.mobile THEN setupDesktopListeners(s) ELSE s)
        EXCEPT !.mqListener = TRUE]

disconnectedCallback(s) ==
    [removeDesktopListeners(s) EXCEPT !.mqListener = FALSE]

(***************************************************************************)
(* Layouts.  Pixel coordinates on a grid of 5px, up to 5 * MaxGrid.  The   *)
(* trigger may reach outside the container; the dialog has a width and a   *)
(* height of at least 5px.                                                 *)
(***************************************************************************)
Grid == { 5 * k : k \in 0..MaxGrid }

(* the horizontal (left/right/width) and the vertical (top/bottom/height)  *)
(* coordinates of the three rectangles                                     *)
Extents ==
    { e \in [cStart : {0, 5}, cSize : Grid, tStart : Grid, tEnd : Grid,
             dSize : Grid \ {0}] : e.tStart <= e.tEnd }

(* the trigger lies within the container *)
Inside(e) == e.cStart <= e.tStart /\ e.tEnd <= e.cStart + e.cSize

(* a widest container at the origin, a trigger and a dialog of 5px *)
FewExtents ==
    { e \in Extents : /\ e.cStart = 0
                      /\ e.cSize = 5 * MaxGrid
                      /\ e.tEnd = e.tStart + 5
                      /\ e.dSize = 5 }

Layout(h, v) ==
    [ containerRect |-> [left |-> h.cStart, top |-> v.cStart,
                         width |-> h.cSize, height |-> v.cSize],
      triggerRect |-> [left |-> h.tStart, right |-> h.tEnd,
                       top |-> v.tStart, bottom |-> v.tEnd],
      dialogRect |-> [width |-> h.dSize, height |-> v.dSize],
      verticalOffset |-> 0 ]

(* a container 400 wide, the trigger at x in [350, 390], a dialog 100 wide *)
ExampleLayout ==
    Layout([cStart |-> 0, cSize |-> 400, tStart |-> 350, tEnd |-> 390,
            dSize |-> 100],
           [cStart |-> 0, cSize |-> 300, tStart |-> 100, tEnd |-> 140,
            dSize |-> 80])

(***************************************************************************)
(* Actions: one per task of the event loop.                                *)
(***************************************************************************)
Init ==
    /\ hasDialog \in BOOLEAN
    /\ mobile \in BOOLEAN
    /\ hasParent = FALSE
    /\ connected = FALSE
    /\ mqListener = FALSE
    /\ pointerenterHandler = FALSE
    /\ trigEnter = FALSE
    /\ trigLeave = FALSE
    /\ dlgLeave = FALSE
    /\ bodyClick = FALSE
    /\ bodyKeydown = FALSE
    /\ bodyKeyup = FALSE
    /\ timer = FALSE
    /\ timers = << >>
    /\ closes = << >>
    /\ open = FALSE
    /\ showing = FALSE
    /\ closing = FALSE
    /\ placement = "none"
    /\ ptr = "out"
    /\ layout = ExampleLayout

(* the element is inserted under a parent element (par) or under a shadow  *)
(* root or fragment (~par)                                                 *)
Connect(par) ==
    /\ ~connected
    /\ Becomes(connectedCallback([State EXCEPT !.connected = TRUE,
                                               !.hasParent = par]))

(* the element, or an ancestor of it (keepParent), is removed *)
Disconnect(keepParent) ==
    /\ connected
    /\ Becomes(disconnectedCallback(
           [State EXCEPT !.connected = FALSE,
                         !.hasParent = hasParent /\ keepParent,
                         !.ptr = "out"]))

(* the viewport crosses the large breakpoint *)
MediaChange ==
    /\ Becomes(IF mqListener
               THEN handleBreakpointChange([State EXCEPT !.mobile = ~mobile])
               ELSE [State EXCEPT !.mobile = ~mobile])

(* The pointer moves from where it is to another place: pointerleave on    *)
(* the place it leaves, then pointerenter on the trigger when it enters it *)
PointerMove(to, n) ==
    /\ connected
    /\ to # ptr
    /\ to = "dialog" => open
    /\ LET s0 == [State EXCEPT !.ptr = to]
           s1 == IF ptr = "trigger" /\ trigLeave
                 THEN handlePointerLeave(s0, "trigger", to, n)
                 ELSE IF ptr = "dialog" /\ dlgLeave
                 THEN handlePointerLeave(s0, "dialog", to, n)
                 ELSE s0
           enters == to = "trigger" /\ s1.trigEnter
       IN  /\ (enters /\ ~s1.open) => Len(s1.timers) < MaxTimers
           /\ Becomes(IF enters THEN pointerenterHandlerFn(s1) ELSE s1)

(* the hover-intent timeout i fires: showDialog starts *)
HoverFires(i, p) ==
    /\ i \in HoverPending(timers)
    /\ CanFire(timers, i)
    /\ Becomes(showDialog([State EXCEPT !.timers = Without(@, i)], p))

(* the settle timeout i fires: showDialog continues after its await *)
SettleFires(i) ==
    /\ i \in ShowsInFlight(timers)
    /\ CanFire(timers, i)
    /\ Becomes(showDialogResume([State EXCEPT !.timers = Without(@, i)]))

(* one animation awaited by the awaiting closeDialog i finishes or is      *)
(* cancelled; when it was the last, closeDialog continues                  *)
AnimationSettles(i, outcome) ==
    /\ i \in 1..Len(closes)
    /\ LET left == closes[i] - 1
       IN  IF allSettled(left, outcome)
           THEN Becomes(closeDialogResume([State EXCEPT !.closes = Without(@, i)]))
           ELSE Becomes([State EXCEPT !.closes[i] = left])

Click(outside, n) ==
    /\ bodyClick
    /\ Becomes(lightDismissMouse(State, outside, n))

KeyDown(key, n) ==
    /\ bodyKeydown
    /\ Becomes(lightDismissKeyboard(State, "keydown", key, TRUE, n))

KeyUp(focusWithin, n) ==
    /\ bodyKeyup
    /\ Becomes(lightDismissKeyboard(State, "keyup", "Other", focusWithin, n))

Anims == 0..MaxAnims

Next ==
    \/ \E par \in BOOLEAN : Connect(par)
    \/ \E keep \in BOOLEAN : Disconnect(keep)
    \/ MediaChange
    \/ \E to \in Places, n \in Anims : PointerMove(to, n)
    \/ \E i \in 1..MaxTimers, p \in Placements : HoverFires(i, p)
    \/ \E i \in 1..MaxTimers : SettleFires(i)
    \/ \E i \in 1..MaxCloses, o \in {"fulfilled", "rejected"} : AnimationSettles(i, o)
    \/ \E key \in {"Escape", "Other"}, n \in Anims : KeyDown(key, n)
    \/ \E fw \in BOOLEAN, n \in Anims : KeyUp(fw, n)
    \/ \E outside \in BOOLEAN, n \in Anims : Click(outside, n)

Spec == Init /\ [][Next]_vars

(***************************************************************************)
(* The placement computation on its own: a connected desktop component     *)
(* with a container, the pointer on the trigger, and any layout; the hover *)
(* timer has fired and showDialog measures, publishes the descriptor and   *)
(* the offset and schedules the settle.                                    *)
(***************************************************************************)
PlacementInit ==
    /\ hasDialog = TRUE
    /\ mobile = FALSE
    /\ hasParent = TRUE
    /\ connected = TRUE
    /\ mqListener = TRUE
    /\ pointerenterHandler = TRUE
    /\ trigEnter = TRUE
    /\ trigLeave = TRUE
    /\ dlgLeave = FALSE
    /\ bodyClick = FALSE
    /\ bodyKeydown = FALSE
    /\ bodyKeyup = FALSE
    /\ timer = TRUE
    /\ timers = << >>
    /\ closes = << >>
    /\ open = FALSE
    /\ showing = FALSE
    /\ closing = FALSE
    /\ placement = "none"
    /\ ptr = "trigger"
    /\ \/ layout = ExampleLayout
       \/ \E h \in FewExtents, v \in { e \in Extents : Inside(e) } :
             layout = Layout(h, v)
       \/ \E h \in FewExtents, v \in { e \in Extents : ~Inside(e) } :
             layout = Layout(h, v)
       \/ \E h \in Extents, v \in FewExtents : layout = Layout(h, v)

Measure ==
    /\ placement = "none"
    /\ Becomes([showDialog(State, dialogPlacement(layout))
                    EXCEPT !.layout = applyOffset(layout)])

PlacementNext == Measure

PlacementSpec == PlacementInit /\ [][PlacementNext]_vars

TypeOK ==
    /\ placement \in Placements \cup {"none"}
    /\ ptr \in Places
    /\ Len(timers) <= MaxTimers
    /\ Len(closes) <= MaxCloses
    /\ \A i \in 1..Len(closes) : closes[i] \in 1..MaxAnims

(***************************************************************************)
(* Properties.                                                             *)
(***************************************************************************)
NoHoverPending(seq) == HoverPending(seq) = {}

(* a step in which a dismissal trigger calls closeDialog *)
Dismissal ==
    \/ \E n \in Anims : Click(TRUE, n)
    \/ \E n \in Anims : KeyDown("Escape", n)
    \/ \E n \in Anims : KeyUp(FALSE, n)
    \/ /\ \E to \in Places, n \in Anims : PointerMove(to, n)
       /\ open
       /\ ~open'

(* the continuation of a closeDialog runs in this step *)
CloseResumes ==
    \/ \E i \in 1..MaxCloses, o \in {"fulfilled", "rejected"} :
          AnimationSettles(i, o) /\ Len(closes') < Len(closes)
    \/ Dismissal /\ Len(closes') = Len(closes)

(* C1: a show() started while a close() awaits its animations is not       *)
(* destroyed by that close(): when the show's settle delay ends, the       *)
(* overlay is open with the showing flag and the placement descriptor the  *)
(* show published, and a close() that resumes while the overlay is open    *)
(* leaves the showing flag and the descriptor alone.                       *)
C1_ReshowSurvivesStaleClose ==
    /\ [][\A i \in 1..MaxTimers :
            (SettleFires(i) /\ timers[i].midClose)
                => (open' /\ showing' /\ placement' = timers[i].pub)]_vars
    /\ [][(CloseResumes /\ open')
            => (showing' = showing /\ placement' = placement)]_vars

(* C2: at most one hover-intent timer is scheduled and not yet fired or    *)
(* cancelled.                                                              *)
C2_AtMostOneHoverTimer == Cardinality(HoverPending(timers)) <= 1

(* C3: at most one show() is between its start and the moment it makes the *)
(* overlay visible.                                                        *)
C3_AtMostOneShowInFlight == Cardinality(ShowsInFlight(timers)) <= 1

(* C4: after close() has been invoked from a dismissal trigger no          *)
(* hover-intent timer is pending.                                          *)
C4_DismissalClearsTimer == [][Dismissal => NoHoverPending(timers')]_vars

(* C5: while the overlay is open every dismissal trigger closes it (the    *)
(* pointer leaving the trigger for a place other than the overlay, the     *)
(* pointer leaving the overlay for a place other than the trigger, a click *)
(* outside, Escape, a keyup without focus in the overlay), and the pointer *)
(* moving between trigger and overlay does not.                            *)
C5_EveryTriggerCloses ==
    /\ [][(open /\ (\E n \in Anims : PointerMove("out", n))) => ~open']_vars
    /\ [][(open /\ ptr # "dialog" /\ (\E n \in Anims : PointerMove("dialog", n)))
            => open']_vars
    /\ [][(open /\ ptr = "dialog" /\ (\E n \in Anims : PointerMove("trigger", n)))
            => open']_vars
    /\ [](open => (bodyClick /\ bodyKeydown /\ bodyKeyup /\ dlgLeave))
    /\ [][(open /\ (\E n \in Anims : Click(TRUE, n))) => ~open']_vars
    /\ [][(open /\ (\E n \in Anims : KeyDown("Escape", n))) => ~open']_vars
    /\ [][(open /\ (\E n \in Anims : KeyUp(FALSE, n))) => ~open']_vars

(* C6: in every state in which the overlay is open a dismissal is          *)
(* possible: one of the five dismissal events is deliverable to a          *)
(* registered listener and its handling leaves the overlay closed.         *)
C6_DismissalReachable ==
    open =>
        \/ ENABLED (\E n \in Anims : Click(TRUE, n) /\ ~open')
        \/ ENABLED (\E n \in Anims : KeyDown("Escape", n) /\ ~open')
        \/ ENABLED (\E n \in Anims : KeyUp(FALSE, n) /\ ~open')
        \/ ENABLED (\E n \in Anims : PointerMove("out", n) /\ ~open')

(* an open overlay whose trigger has lost its pointerleave listener *)
C6_Witness == open /\ ptr = "trigger" /\ ~trigLeave /\ ~trigEnter

(* C7: whenever the overlay is closed, none of the listeners showDialog    *)
(* registers (body click, keydown, keyup, dialog pointerleave) is          *)
(* registered.                                                             *)
C7_CloseRemovesShowListeners ==
    ~open => (~bodyClick /\ ~bodyKeydown /\ ~bodyKeyup /\ ~dlgLeave)

(* the overlay was shown and has been closed; the close awaits animations *)
C7_Witness == ~open /\ closing /\ showing /\ closes # << >>

(* C8: a pointerenter on the trigger while the overlay is open schedules   *)
(* no timer, starts no show, registers no listener and changes no dialog   *)
(* state; when the pointer comes from outside (no pointerleave precedes    *)
(* it) nothing but the pointer position changes.                           *)
C8_EnterWhileOpenIdempotent ==
    [][(open /\ trigEnter /\ ptr # "trigger" /\ ptr' = "trigger") =>
         /\ Cardinality(HoverPending(timers')) <= Cardinality(HoverPending(timers))
         /\ Cardinality(ShowsInFlight(timers')) = Cardinality(ShowsInFlight(timers))
         /\ UNCHANGED << pointerenterHandler, trigEnter, trigLeave, dlgLeave,
                         bodyClick, bodyKeydown, bodyKeyup, closes, open,
                         showing, closing, placement >>
         /\ (ptr = "out" => UNCHANGED << timer, timers >>)]_vars

(* the pointer is on the trigger of an open overlay after a pointerleave   *)
(* was handled (this.timer is null again)                                  *)
C8_Witness == open /\ trigEnter /\ ptr = "trigger" /\ ~timer /\ trigLeave

(* C9: a breakpoint change from desktop to mobile leaves no hover-intent   *)
(* timer pending and no hover listener on the trigger, and the trigger     *)
(* carries no hover listener while the component observes a mobile         *)
(* breakpoint.                                                             *)
C9_MobileCancelsHover ==
    /\ [][(mqListener /\ ~mobile /\ mobile')
            => (NoHoverPending(timers') /\ ~trigEnter' /\ ~trigLeave')]_vars
    /\ []((mqListener /\ mobile) => (~trigEnter /\ ~trigLeave))

(* C10: after disconnectedCallback the breakpoint listener and the hover   *)
(* listeners are unregistered and no hover-intent timer is pending; when   *)
(* nothing was wired it changes nothing else.                              *)
C10_DetachUnwires ==
    [][(\E keep \in BOOLEAN : Disconnect(keep)) =>
         /\ ~mqListener' /\ ~trigEnter' /\ ~trigLeave' /\ ~pointerenterHandler'
         /\ NoHoverPending(timers')
         /\ (~pointerenterHandler /\ ~timer) =>
               UNCHANGED << timer, timers, closes, open, showing, closing,
                            placement, dlgLeave, bodyClick, bodyKeydown,
                            bodyKeyup >>]_vars

(* C11: when this.parentElement is missing as showDialog computes the      *)
(* placement, the overlay does not show: a closed overlay stays closed,    *)
(* gets no showing flag and no dismissal listener.                         *)
C11_NoContainerNoShow ==
    [][(\E i \in 1..MaxTimers, p \in Placements : HoverFires(i, p))
         /\ hasDialog /\ ~hasParent /\ ~open
       => /\ ~open'
          /\ showing' = showing
          /\ ~bodyClick' /\ ~bodyKeydown' /\ ~bodyKeyup' /\ ~dlgLeave']_vars

(* C14: when the pointer leaves the trigger while a hover-intent timer is  *)
(* pending, no hover-intent timer is pending afterwards and the trigger's  *)
(* pointerleave listener is removed.                                       *)
C14_LeaveWhilePendingGoesIdle ==
    [][(ptr = "trigger" /\ ~NoHoverPending(timers)
          /\ (\E to \in Places, n \in Anims : PointerMove(to, n)))
       => (NoHoverPending(timers') /\ ~trigLeave')]_vars

(* C14, the timer half alone: leaving the trigger while a hover-intent     *)
(* timer is pending leaves none pending.                                   *)
C14_LeaveCancelsTimer ==
    [][(ptr = "trigger" /\ ~NoHoverPending(timers)
          /\ (\E to \in Places, n \in Anims : PointerMove(to, n)))
       => NoHoverPending(timers')]_vars

(* C17: an open overlay always carries a placement descriptor. *)
C17_OpenHasPlacement == open => placement # "none"

(* C18: the overlay becomes visible only while the pointer is on the       *)
(* trigger: once the pointer has left the trigger for a place outside the  *)
(* overlay, a show that was already started does not open it.              *)
C18_NoOpenAfterLeave ==
    [][(connected /\ ~open /\ open') => ptr = "trigger"]_vars

(* C19: an open overlay carries the closing flag only while a closeDialog  *)
(* awaits its animations.                                                  *)
C19_ClosingTransient == (open /\ closes = << >>) => ~closing

(* C16: a closeDialog stops waiting exactly when the last animation it    *)
(* awaits has settled, fulfilled or rejected (no close is left waiting for *)
(* zero animations); the step in which it stops waiting clears the showing *)
(* flag, the closing flag and the placement descriptor when the overlay is *)
(* not open, and a step in which only some of its animations have settled  *)
(* clears none of them.                                                    *)
C16_CloseAwaitsAllSettled ==
    [][/\ \A i \in 1..Len(closes') : closes'[i] >= 1
       /\ Len(closes') < Len(closes) =>
            /\ ~open => (~showing' /\ ~closing' /\ placement' = "none")
            /\ open => UNCHANGED << showing, closing, placement >>
       /\ (Len(closes') = Len(closes) /\ closes' # closes) =>
            UNCHANGED << showing, closing, placement >>]_vars

(* a closeDialog awaits several animations: the overlay is closed and the  *)
(* showing flag, the closing flag and the descriptor are still in place    *)
C16_Witness ==
    /\ ~open /\ showing /\ closing /\ placement # "none"
    /\ \E i \in 1..Len(closes) : closes[i] >= 2

(***************************************************************************)
(* Properties of the placement, read off the published state: the          *)
(* container-relative trigger edges, and the labels of the descriptor.     *)
(***************************************************************************)
Measured == placement # "none"
PlacedX == CHOOSE x \in Horizontal : \E y \in Vertical : placement = Descriptor(x, y)
PlacedY == CHOOSE y \in Vertical : \E x \in Horizontal : placement = Descriptor(x, y)
W == layout.containerRect.width
H == layout.containerRect.height
TrigLeft == layout.triggerRect.left - layout.containerRect.left
TrigRight == layout.triggerRect.right - layout.containerRect.left
TrigTop == layout.triggerRect.top - layout.containerRect.top
TrigBottom == layout.triggerRect.bottom - layout.containerRect.top
DlgW == layout.dialogRect.width
DlgH == layout.dialogRect.height

(* C12: the horizontal placement is 'right' exactly when the space right   *)
(* of the trigger minus the 10px edge gap is at least the overlay width    *)
(* plus the 10px trigger gap, otherwise 'left' exactly when the space left *)
(* of the trigger minus the edge gap is at least overlay width plus the    *)
(* trigger gap, otherwise 'center'; a container 400 wide with the trigger  *)
(* at [350, 390] and an overlay 100 wide yields 'left'.                    *)
C12_HorizontalPlacement ==
    Measured =>
        LET fitsRight == (W - TrigRight) - 10 >= DlgW + 10
            fitsLeft == TrigLeft - 10 >= DlgW + 10
        IN  /\ PlacedX = "right" <=> fitsRight
            /\ PlacedX = "left" <=> (~fitsRight /\ fitsLeft)
            /\ PlacedX = "center" <=> (~fitsRight /\ ~fitsLeft)
            /\ (W = 400 /\ TrigLeft = 350 /\ TrigRight = 390 /\ DlgW = 100)
                  => PlacedX = "left"

(* the example layout measured *)
C12_Witness ==
    /\ Measured
    /\ W = 400 /\ TrigLeft = 350 /\ TrigRight = 390 /\ DlgW = 100
    /\ PlacedX = "left"

(* C13 as stated: if H - y < h and y >= h, with y the trigger's bottom,    *)
(* the vertical placement is 'top'.                                        *)
C13_FlipWhenBelowTooSmall ==
    (Measured /\ H - TrigBottom < DlgH /\ TrigBottom >= DlgH) => PlacedY = "top"

(* C13 amended: off center the vertical placement is 'top' exactly when    *)
(* the overlay started at the trigger's top edge would pass the 10px gap   *)
(* at the container's bottom (trigger top + h > H - 10), whatever the      *)
(* trigger's bottom; in the center case with H - y < h it is 'top'         *)
(* whenever the space above the trigger's top is at least h + 20.          *)
C13_FlipWhenTopAlignedOverflows ==
    Measured =>
        /\ PlacedX # "center" => (PlacedY = "top" <=> TrigTop + DlgH > H - 10)
        /\ (PlacedX = "center" /\ H - TrigBottom < DlgH /\ TrigTop >= DlgH + 20)
              => PlacedY = "top"

(* off center, below the trigger's bottom there is less than h, above it   *)
(* at least h, and the overlay is flipped                                  *)
C13_Witness ==
    /\ Measured /\ PlacedX # "center"
    /\ H - TrigBottom < DlgH /\ TrigBottom >= DlgH
    /\ TrigTop + DlgH > H - 10
    /\ PlacedY = "top"

(* C15: in the center case the vertical placement is 'bottom' when the     *)
(* space below the trigger's bottom is at least h + 20, otherwise 'top'    *)
(* when the space above the trigger's top is at least h + 20, otherwise    *)
(* 'bottom' when the trigger's vertical midpoint lies in the upper half of *)
(* the container and 'top' when it lies in the lower half.                 *)
C15_CenterVertical ==
    (Measured /\ PlacedX = "center") =>
        IF H - TrigBottom >= DlgH + 20 THEN PlacedY = "bottom"
        ELSE IF TrigTop >= DlgH + 20 THEN PlacedY = "top"
        ELSE /\ TrigTop + TrigBottom < H => PlacedY = "bottom"
             /\ TrigTop + TrigBottom > H => PlacedY = "top"

(* C20: off center, with h <= H - 20, the overlay's vertical extent        *)
(* (started at the trigger's top for 'bottom', ended at the trigger's      *)
(* bottom for 'top', shifted by the published offset) lies within          *)
(* [10, H - 10], and the offset is 0 exactly when the unshifted extent     *)
(* lies within those bounds.                                               *)
C20_OffsetKeepsOverlayInBounds ==
    (Measured /\ PlacedX # "center" /\ DlgH <= H - 20) =>
        LET start == IF PlacedY = "bottom" THEN TrigTop ELSE TrigBottom - DlgH
            end == start + DlgH
            offset == layout.verticalOffset
        IN  /\ start + offset >= 10
            /\ end + offset <= H - 10
            /\ offset = 0 <=> (start >= 10 /\ end <= H - 10)

(* off center, a flipped overlay that ends past the bottom gap is shifted  *)
(* up                                                                      *)
C20_Witness ==
    /\ Measured /\ PlacedX # "center" /\ DlgH <= H - 20
    /\ PlacedY = "top"
    /\ layout.verticalOffset < 0

====
